---- MODULE Spec2Model ----
(***************************************************************************)
(* Model of the yaml-to-mux parameter multiplexer                          *)
(* (avocado/plugins/yaml_to_mux.py): the tree of MuxTreeNode, merge, the   *)
(* document loader, create_from_yaml and apply_filters.                    *)
(*                                                                         *)
(* A python string is a sequence of one-character strings, so that         *)
(* rstrip, rpartition, split and join are computed character by            *)
(* character.  A node is a record; the parent back-reference is the        *)
(* nesting of the records, and a node's path is computed on the way down   *)
(* from the root.                                                          *)
(***************************************************************************)
EXTENDS Integers, Sequences, FiniteSets, TLC

(***************************************************************************)
(* Strings                                                                 *)
(***************************************************************************)
SEP == "/"

RECURSIVE rstrip(_)
\* str.rstrip('/'): drop every trailing separator
rstrip(s) ==
    IF s # <<>> /\ s[Len(s)] = SEP THEN rstrip(SubSeq(s, 1, Len(s) - 1)) ELSE s

RECURSIVE LastSep(_)
\* index of the last separator of s, 0 when there is none
LastSep(s) ==
    IF s = <<>> THEN 0
    ELSE IF s[Len(s)] = SEP THEN Len(s) ELSE LastSep(SubSeq(s, 1, Len(s) - 1))

\* str.rpartition('/')[0]: what precedes the last separator ('' without one)
rpartition_head(s) ==
    IF LastSep(s) = 0 THEN <<>> ELSE SubSeq(s, 1, LastSep(s) - 1)

(***************************************************************************)
(* Value mappings (python dict)                                            *)
(***************************************************************************)
EmptyValue == [k \in {} |-> 0]

\* dict.update
Update(v, w) ==
    [k \in (DOMAIN v) \cup (DOMAIN w) |-> IF k \in DOMAIN w THEN w[k] ELSE v[k]]

\* dict.pop(key, None)
Pop(v, key) == [k \in (DOMAIN v) \ {key} |-> v[k]]

(***************************************************************************)
(* Nodes                                                                   *)
(***************************************************************************)
REMOVE_NODE == "REMOVE_NODE"
REMOVE_VALUE == "REMOVE_VALUE"

Control(code, value) == [code |-> code, value |-> value]

\* MuxTreeNode.__init__: multiplex is None, no pending control
Node(name, value, children) ==
    [name |-> name, value |-> value, children |-> children,
     multiplex |-> "None", ctrl |-> <<>>]

MuxTreeNode == Node(<<>>, EmptyValue, <<>>)

RECURSIVE IndexOfName(_, _, _)
\* position of the first child called name at or after position i, 0 if none
IndexOfName(children, name, i) ==
    IF i > Len(children) THEN 0
    ELSE IF children[i].name = name THEN i
    ELSE IndexOfName(children, name, i + 1)

HasChild(node, name) == IndexOfName(node.children, name, 1) > 0

ChildNamed(node, name) == node.children[IndexOfName(node.children, name, 1)]

RemoveAt(s, i) == SubSeq(s, 1, i - 1) \o SubSeq(s, i + 1, Len(s))

(***************************************************************************)
(* Merge                                                                   *)
(***************************************************************************)
RECURSIVE merge(_, _)

\* TreeNode.add_child: a node with the name of an existing child is merged
\* into that child, which keeps its position; any other node is appended
add_child(self, node) ==
    LET i == IndexOfName(self.children, node.name, 1) IN
    IF i > 0
    THEN [self EXCEPT !.children[i] = merge(self.children[i], node)]
    ELSE [self EXCEPT !.children = Append(self.children, node)]

RECURSIVE add_children(_, _)
\* "for child in other.children: self.add_child(child)"
add_children(self, nodes) ==
    IF nodes = <<>> THEN self
    ELSE add_children(add_child(self, Head(nodes)), Tail(nodes))

\* whether the target of a pending control exists in node
Resolvable(node, c) ==
    IF c.code = REMOVE_NODE THEN HasChild(node, c.value)
    ELSE c.value \in DOMAIN node.value

\* the control applied: the named child detached, or the named key deleted
Resolve(node, c) ==
    IF c.code = REMOVE_NODE
    THEN [node EXCEPT !.children =
                 RemoveAt(node.children, IndexOfName(node.children, c.value, 1))]
    ELSE [node EXCEPT !.value = Pop(node.value, c.value)]

RECURSIVE resolve_controls(_, _)
\* the pending controls in queue order: one whose target exists is applied
\* and discarded, any other stays queued on the node
resolve_controls(node, pending) ==
    IF pending = <<>> THEN node
    ELSE LET c == Head(pending) IN
         IF Resolvable(node, c)
         THEN resolve_controls(Resolve(node, c), Tail(pending))
         ELSE resolve_controls([node EXCEPT !.ctrl = Append(node.ctrl, c)],
                               Tail(pending))

\* TreeNode.merge: values, then children, then the pending controls
TreeNode_merge(self, other) ==
    LET valued == [self EXCEPT !.value = Update(self.value, other.value)]
        grown == add_children(valued, other.children)
    IN resolve_controls([grown EXCEPT !.ctrl = <<>>], self.ctrl \o other.ctrl)

\* MuxTreeNode.merge without the call of TreeNode.merge
merge_without_super(self, other) ==
    IF other.multiplex = "True" THEN [self EXCEPT !.multiplex = "True"]
    ELSE IF other.multiplex = "False" THEN [self EXCEPT !.multiplex = "False"]
    ELSE self

\* MuxTreeNode.merge with the flag taken for a boolean: False is not merged
merge_without_false(self, other) ==
    LET merged == TreeNode_merge(self, other) IN
    IF other.multiplex = "True" THEN [merged EXCEPT !.multiplex = "True"]
    ELSE merged

\* MuxTreeNode.merge with False taken for unset: it clears the flag
merge_false_unsets(self, other) ==
    LET merged == TreeNode_merge(self, other) IN
    IF other.multiplex = "True" THEN [merged EXCEPT !.multiplex = "True"]
    ELSE IF other.multiplex = "False" THEN [merged EXCEPT !.multiplex = "None"]
    ELSE merged

\* MuxTreeNode.merge
merge(self, other) ==
    LET merged == TreeNode_merge(self, other) IN
    IF other.multiplex = "True" THEN [merged EXCEPT !.multiplex = "True"]
    ELSE IF other.multiplex = "False" THEN [merged EXCEPT !.multiplex = "False"]
    ELSE merged

(***************************************************************************)
(* Paths of the nodes of a tree                                            *)
(***************************************************************************)
\* TreeNode.path of the root: the separator
RootPath == <<SEP>>

\* TreeNode.path of a child called name below the node at parent_path
ChildPath(parent_path, name) ==
    IF parent_path = RootPath THEN <<SEP>> \o name
    ELSE parent_path \o <<SEP>> \o name

\* path_parent
path_parent(path) ==
    LET parent == rpartition_head(path) IN
    IF parent = <<>> THEN <<SEP>> ELSE parent

RECURSIVE PathsBelow(_, _)
\* the paths of all nodes below node, whose own path is path
PathsBelow(node, path) ==
    UNION { {ChildPath(path, node.children[i].name)}
            \cup PathsBelow(node.children[i],
                            ChildPath(path, node.children[i].name))
            : i \in 1..Len(node.children) }

\* the paths of all nodes of the tree under root, the root included
Paths(root) == {RootPath} \cup PathsBelow(root, RootPath)

RECURSIVE UniqueSiblings(_)
\* no two children of one parent share a name, anywhere in the tree
UniqueSiblings(node) ==
    /\ \A i, j \in 1..Len(node.children) :
          node.children[i].name = node.children[j].name => i = j
    /\ \A i \in 1..Len(node.children) : UniqueSiblings(node.children[i])

(***************************************************************************)
(* apply_filters                                                           *)
(***************************************************************************)
RECURSIVE normalize(_)
\* "[_.rstrip('/') for _ in paths if _]"
normalize(paths) ==
    IF paths = <<>> THEN <<>>
    ELSE IF Head(paths) = <<>> THEN normalize(Tail(paths))
    ELSE <<rstrip(Head(paths))>> \o normalize(Tail(paths))

RECURSIVE only_loop_without_break(_, _, _, _, _)
\* the loop over filter_only going on after a rule that names the node
only_loop_without_break(keep_node, filter_only, node_path, has_parent, up) ==
    IF filter_only = <<>> THEN keep_node
    ELSE LET path == Head(filter_only) IN
         IF path = <<>>
         THEN only_loop_without_break(keep_node, Tail(filter_only), node_path,
                                      has_parent, up)
         ELSE IF node_path = path
         THEN only_loop_without_break(TRUE, Tail(filter_only), node_path,
                                      has_parent, up)
         ELSE IF has_parent /\ up = path_parent(path)
         THEN only_loop_without_break(FALSE, Tail(filter_only), node_path,
                                      has_parent, up)
         ELSE only_loop_without_break(keep_node, Tail(filter_only), node_path,
                                      has_parent, up)

RECURSIVE only_loop(_, _, _, _, _)
\* "for path in filter_only": the value of keep_node after the loop
only_loop(keep_node, filter_only, node_path, has_parent, parent_path) ==
    IF filter_only = <<>> THEN keep_node
    ELSE LET path == Head(filter_only) IN
         IF path = <<>>
         THEN only_loop(keep_node, Tail(filter_only), node_path, has_parent,
                        parent_path)
         ELSE IF node_path = path THEN TRUE
         ELSE IF has_parent /\ parent_path = path_parent(path)
         THEN only_loop(FALSE, Tail(filter_only), node_path, has_parent,
                        parent_path)
         ELSE only_loop(keep_node, Tail(filter_only), node_path, has_parent,
                        parent_path)

RECURSIVE out_loop_by_parent(_, _, _)
\* the loop over filter_out matching the parent too, as the loop over
\* filter_only does
out_loop_by_parent(keep_node, filter_out, node_path) ==
    IF filter_out = <<>> THEN keep_node
    ELSE LET path == Head(filter_out) IN
         IF path = <<>>
         THEN out_loop_by_parent(keep_node, Tail(filter_out), node_path)
         ELSE IF node_path = path THEN FALSE
         ELSE IF path_parent(node_path) = path_parent(path) THEN FALSE
         ELSE out_loop_by_parent(keep_node, Tail(filter_out), node_path)

RECURSIVE out_loop(_, _, _)
\* "for path in filter_out": the value of keep_node after the loop
out_loop(keep_node, filter_out, node_path) ==
    IF filter_out = <<>> THEN keep_node
    ELSE LET path == Head(filter_out) IN
         IF path = <<>> THEN out_loop(keep_node, Tail(filter_out), node_path)
         ELSE IF node_path = path THEN FALSE
         ELSE out_loop(keep_node, Tail(filter_out), node_path)

\* the two loops the other way round: the only rules have the last word
keep_only_last(filter_only, filter_out, node_path, has_parent, parent_path) ==
    only_loop(out_loop(TRUE, filter_out, node_path), filter_only, node_path,
              has_parent, parent_path)

\* keep_node at "if not keep_node", for the node at node_path
keep(filter_only, filter_out, node_path, has_parent, parent_path) ==
    out_loop(only_loop(TRUE, filter_only, node_path, has_parent, parent_path),
             filter_out, node_path)

RECURSIVE filter_children_promoting(_, _, _, _)
\* the walk with a detach that drops the node alone: its children move up
filter_children_promoting(children, parent_path, filter_only, filter_out) ==
    IF children = <<>> THEN <<>>
    ELSE LET node == Head(children)
             node_path == ChildPath(parent_path, node.name)
             below == filter_children_promoting(node.children, node_path,
                                                filter_only, filter_out)
             rest == filter_children_promoting(Tail(children), parent_path,
                                               filter_only, filter_out)
         IN IF keep(filter_only, filter_out, node_path, TRUE, parent_path)
            THEN <<[node EXCEPT !.children = below]>> \o rest
            ELSE below \o rest

RECURSIVE filter_children(_, _, _, _)
\* the pre-order walk below the node at parent_path: a child that is not
\* kept is detached with its subtree
filter_children(children, parent_path, filter_only, filter_out) ==
    IF children = <<>> THEN <<>>
    ELSE LET node == Head(children)
             node_path == ChildPath(parent_path, node.name)
             rest == filter_children(Tail(children), parent_path, filter_only,
                                     filter_out)
         IN IF keep(filter_only, filter_out, node_path, TRUE, parent_path)
            THEN <<[node EXCEPT !.children =
                       filter_children(node.children, node_path, filter_only,
                                       filter_out)]>> \o rest
            ELSE rest

\* apply_filters; the root has no parent, and its path, the separator, is
\* no rule once the rules are stripped, so the root itself always stays
apply_filters(root, filter_only, filter_out) ==
    [root EXCEPT !.children =
        filter_children(root.children, RootPath, normalize(filter_only),
                        normalize(filter_out))]

(***************************************************************************)
(* Parsed documents                                                        *)
(*                                                                         *)
(* A mapping of a document is the sequence of its entries, as              *)
(* mapping_to_tree_loader reads them: a value, an empty node, a node with  *)
(* a mapping of its own (tagged !mux or not), or one of the tagged keys.   *)
(***************************************************************************)
Entry(kind, key, arg, v, mux, items) ==
    [kind |-> kind, key |-> key, arg |-> arg, v |-> v, mux |-> mux,
     items |-> items]

ValueEntry(key, v) == Entry("value", key, <<>>, v, FALSE, <<>>)
EmptyEntry(name) == Entry("empty", name, <<>>, 0, FALSE, <<>>)
NodeEntry(name, mux, items) == Entry("node", name, <<>>, 0, mux, items)
IncludeEntry(file) == Entry("include", <<>>, file, 0, FALSE, <<>>)
UsingEntry(prefix) == Entry("using", <<>>, prefix, 0, FALSE, <<>>)
RemoveNodeEntry(name) == Entry("remove_node", <<>>, name, 0, FALSE, <<>>)
RemoveValueEntry(key) == Entry("remove_value", <<>>, key, 0, FALSE, <<>>)

\* what yaml.load makes of a file: a mapping, nothing, or a YAMLError
Document(items) == [status |-> "mapping", items |-> items]
EmptyDocument == [status |-> "None", items |-> <<>>]
MalformedDocument == [status |-> "YAMLError", items |-> <<>>]

\* the files an !include can name
Files ==
    (<<"s">> :> Document(<<NodeEntry(<<"a">>, FALSE,
                                     <<ValueEntry(<<"p">>, 2)>>)>>))
    @@ (<<"e">> :> EmptyDocument)
    @@ (<<"m">> :> MalformedDocument)

(***************************************************************************)
(* _create_from_yaml                                                       *)
(***************************************************************************)
\* the result of a load: a tree, nothing (an empty file), or an exception
Loaded(node) == [err |-> "", none |-> FALSE, node |-> node]
LoadedNone == [err |-> "", none |-> TRUE, node |-> MuxTreeNode]
Raised(err) == [err |-> err, none |-> FALSE, node |-> MuxTreeNode]

RECURSIVE split(_)
\* str.split('/')
split(s) ==
    IF LastSep(s) = 0 THEN <<s>>
    ELSE split(SubSeq(s, 1, LastSep(s) - 1))
         \o <<SubSeq(s, LastSep(s) + 1, Len(s))>>

RECURSIVE wrap(_, _)
\* "node = cls_node(names.pop(), children=[node])" until names is empty
wrap(node, names) ==
    IF names = <<>> THEN node
    ELSE wrap(Node(names[Len(names)], EmptyValue, <<node>>),
              SubSeq(names, 1, Len(names) - 1))

Reverse(s) == [i \in 1..Len(s) |-> s[Len(s) + 1 - i]]

\* the !using branch: st is the state of the loop over the values
set_using(st, arg) ==
    IF st.using # <<>> THEN [st EXCEPT !.err = "ValueError"]
    ELSE IF arg = <<>> THEN [st EXCEPT !.err = "IndexError"]
    ELSE LET lead == IF arg[1] = SEP THEN Tail(arg) ELSE arg IN
         IF lead = <<>> THEN [st EXCEPT !.err = "IndexError"]
         ELSE [st EXCEPT !.using =
                 IF lead[Len(lead)] = SEP
                 THEN SubSeq(lead, 1, Len(lead) - 1) ELSE lead]

\* "if using:" after the loop over the values
apply_using(name, node, using) ==
    IF using = <<>> THEN node
    ELSE IF name # <<>> THEN wrap(node, split(using))
    ELSE LET names == Reverse(split(using)) IN
         Node(<<>>, EmptyValue,
              <<wrap([node EXCEPT !.name = names[Len(names)]],
                     SubSeq(names, 1, Len(names) - 1))>>)

RECURSIVE tree_node_from_values(_, _, _)
RECURSIVE create_tree(_, _)

\* the loop body with the remove-node and remove-value branches applying
\* nothing and queueing nothing
add_value_without_queue(st, e) ==
    IF st.err # "" THEN st
    ELSE IF e.kind = "node"
    THEN LET child == tree_node_from_values(e.key, e.items, e.mux) IN
         IF child.err # "" THEN [st EXCEPT !.err = child.err]
         ELSE [st EXCEPT !.node = add_child(st.node, child.node)]
    ELSE IF e.kind = "empty"
    THEN [st EXCEPT !.node = add_child(st.node, Node(e.key, EmptyValue, <<>>))]
    ELSE IF e.kind = "include"
    THEN IF e.arg \notin DOMAIN Files THEN [st EXCEPT !.err = "ValueError"]
         ELSE LET inc == create_tree(<<>>, Files[e.arg]) IN
              IF inc.err # "" THEN [st EXCEPT !.err = inc.err]
              ELSE IF inc.none THEN [st EXCEPT !.err = "AttributeError"]
              ELSE [st EXCEPT !.node = merge(st.node, inc.node)]
    ELSE IF e.kind = "using" THEN set_using(st, e.arg)
    ELSE IF e.kind \in {"remove_node", "remove_value"} THEN st
    ELSE [st EXCEPT !.node.value = Update(@, (e.key :> e.v))]

\* one turn of "for value in values"
add_value(st, e) ==
    IF st.err # "" THEN st
    ELSE IF e.kind = "node"
    THEN LET child == tree_node_from_values(e.key, e.items, e.mux) IN
         IF child.err # "" THEN [st EXCEPT !.err = child.err]
         ELSE [st EXCEPT !.node = add_child(st.node, child.node)]
    ELSE IF e.kind = "empty"
    THEN [st EXCEPT !.node = add_child(st.node, Node(e.key, EmptyValue, <<>>))]
    ELSE IF e.kind = "include"
    THEN IF e.arg \notin DOMAIN Files THEN [st EXCEPT !.err = "ValueError"]
         ELSE LET inc == create_tree(<<>>, Files[e.arg]) IN
              IF inc.err # "" THEN [st EXCEPT !.err = inc.err]
              ELSE IF inc.none THEN [st EXCEPT !.err = "AttributeError"]
              ELSE [st EXCEPT !.node = merge(st.node, inc.node)]
    ELSE IF e.kind = "using" THEN set_using(st, e.arg)
    ELSE IF e.kind = "remove_node"
    THEN [st EXCEPT !.node.ctrl = Append(@, Control(REMOVE_NODE, e.arg))]
    ELSE IF e.kind = "remove_value"
    THEN [st EXCEPT !.node.ctrl = Append(@, Control(REMOVE_VALUE, e.arg))]
    ELSE [st EXCEPT !.node.value = Update(@, (e.key :> e.v))]

RECURSIVE add_values(_, _)
add_values(st, values) ==
    IF values = <<>> THEN st
    ELSE add_values(add_value(st, Head(values)), Tail(values))

\* tree_node_from_values(name, values); mux: the values end with the
\* marker mux_loader appends
tree_node_from_values(name, values, mux) ==
    LET st == add_values([node |-> Node(name, EmptyValue, <<>>),
                          using |-> <<>>, err |-> ""], values)
        node == IF mux THEN [st.node EXCEPT !.multiplex = "True"] ELSE st.node
    IN IF st.err # "" THEN Raised(st.err)
       ELSE Loaded(apply_using(name, node, st.using))

\* "# Add prefix"
add_prefix(loaded_tree, using) ==
    IF using = <<>> THEN loaded_tree
    ELSE Node(<<>>, EmptyValue,
              <<wrap([loaded_tree EXCEPT !.name = using[Len(using)]],
                     SubSeq(using, 1, Len(using) - 1))>>)

\* _create_from_yaml, for a locator whose qualifier names the nodes using
\* (<<"run">> for a locator without qualifier) and whose file holds doc
create_tree(using, doc) ==
    IF doc.status = "YAMLError" THEN Raised("YAMLError")
    ELSE IF doc.status = "None" THEN LoadedNone
    ELSE LET loaded == tree_node_from_values(<<>>, doc.items, FALSE) IN
         IF loaded.err # "" THEN loaded
         ELSE Loaded(add_prefix(loaded.node, using))

(***************************************************************************)
(* MuxTree: the pools of a tree and the variants they give                 *)
(***************************************************************************)
\* a node together with its path: what a reference to a node of a tree gives
At(path, node) == [path |-> path, node |-> node]

\* the children of the node x, each with its path, in order
children_of(x) ==
    [i \in 1..Len(x.node.children) |->
        At(ChildPath(x.path, x.node.children[i].name), x.node.children[i])]

\* TreeNode.is_leaf
is_leaf(node) == node.children = <<>>

\* "getattr(node, 'multiplex', False)" with every set flag taken for true
is_mux_unless_none(node) == node.multiplex # "None"

\* "getattr(node, 'multiplex', False)": true of the flag True only
is_mux(node) == node.multiplex = "True"

RECURSIVE iter_queue(_)
\* the loop of _iter_mux_leaves on its queue: a leaf or a domain is yielded,
\* the children of any other node go to the front of the queue
iter_queue(queue) ==
    IF queue = <<>> THEN <<>>
    ELSE LET x == Head(queue) IN
         IF is_leaf(x.node) \/ is_mux(x.node)
         THEN <<x>> \o iter_queue(Tail(queue))
         ELSE iter_queue(children_of(x) \o Tail(queue))

\* MuxTree._iter_mux_leaves
_iter_mux_leaves(x) == iter_queue(<<x>>)

RECURSIVE MuxTree(_)
\* MuxTree.__init__: the pools of the tree slice under x; a pool is a leaf,
\* or the MuxTree of every child of a domain
MuxTree(x) ==
    LET found == _iter_mux_leaves(x) IN
    [i \in 1..Len(found) |->
        IF is_leaf(found[i].node)
        THEN [leaf |-> TRUE, node |-> found[i], alts |-> <<>>]
        ELSE [leaf |-> FALSE, node |-> found[i],
              alts |-> [j \in 1..Len(found[i].node.children) |->
                           MuxTree(children_of(found[i])[j])]]]

RECURSIVE chain(_)
\* itertools.chain(*seqs)
chain(seqs) == IF seqs = <<>> THEN <<>> ELSE Head(seqs) \o chain(Tail(seqs))

\* the pools chained where their product is due: every item on its own
product_as_chain(pools) == chain(pools)

RECURSIVE product_first_fastest(_)
\* the combinations with the first pool turning fastest
product_first_fastest(pools) ==
    IF pools = <<>> THEN << <<>> >>
    ELSE LET rest == product_first_fastest(Tail(pools)) IN
         chain([j \in 1..Len(rest) |->
                   [i \in 1..Len(Head(pools)) |-> Head(pools)[i] \o rest[j]]])

RECURSIVE product(_)
\* itertools.product(*pools), each combination flattened by chain: the first
\* pool turns slowest
product(pools) ==
    IF pools = <<>> THEN << <<>> >>
    ELSE LET rest == product(Tail(pools)) IN
         chain([i \in 1..Len(Head(pools)) |->
                   [j \in 1..Len(rest) |-> Head(pools)[i] \o rest[j]]])

RECURSIVE MuxTree_iter(_)
\* a domain taken for a plain node: its children combined, not alternated
pool_items_combined(pool) ==
    IF pool.leaf THEN << <<pool.node>> >>
    ELSE product([i \in 1..Len(pool.alts) |-> MuxTree_iter(pool.alts[i])])

\* what a pool gives the product: a leaf itself, a domain the variants of its
\* children, one child after the other
pool_items(pool) ==
    IF pool.leaf THEN << <<pool.node>> >>
    ELSE chain([i \in 1..Len(pool.alts) |-> MuxTree_iter(pool.alts[i])])

\* MuxTree.__iter__: the variants in the order they are yielded
MuxTree_iter(pools) ==
    product([i \in 1..Len(pools) |-> pool_items(pools[i])])

(***************************************************************************)
(* Variant identity                                                        *)
(***************************************************************************)
\* the characters from "-" to "9" and from "a" to "z", in the order of
\* their codes
Punctuation == <<"-", ".", "/", "0", "1", "2", "3", "4", "5", "6", "7", "8", "9">>
Lowercase ==
    <<"a", "b", "c", "d", "e", "f", "g", "h", "i", "j", "k", "l", "m",
      "n", "o", "p", "q", "r", "s", "t", "u", "v", "w", "x", "y", "z">>

\* ord(ch)
ord(ch) ==
    IF \E i \in 1..Len(Punctuation) : Punctuation[i] = ch
    THEN 44 + (CHOOSE i \in 1..Len(Punctuation) : Punctuation[i] = ch)
    ELSE 96 + (CHOOSE i \in 1..Len(Lowercase) : Lowercase[i] = ch)

RECURSIVE str_lt(_, _)
\* s < t for two python strings
str_lt(s, t) ==
    IF t = <<>> THEN FALSE
    ELSE IF s = <<>> THEN TRUE
    ELSE IF Head(s) = Head(t) THEN str_lt(Tail(s), Tail(t))
    ELSE ord(Head(s)) < ord(Head(t))

RECURSIVE str(_)
\* str(n) of a natural number
str(n) ==
    IF n < 10 THEN <<Punctuation[n + 4]>>
    ELSE str(n \div 10) \o <<Punctuation[(n % 10) + 4]>>

RECURSIVE join(_, _)
\* sep.join(strings)
join(sep, strings) ==
    IF strings = <<>> THEN <<>>
    ELSE IF Len(strings) = 1 THEN Head(strings)
    ELSE Head(strings) \o sep \o join(sep, Tail(strings))

\* the leaf x put into a list sorted by path, after the leaves that do not
\* come later (list.sort is stable)
RECURSIVE insert_by_path(_, _)
insert_by_path(sorted, x) ==
    IF sorted = <<>> THEN <<x>>
    ELSE IF str_lt(x.path, Head(sorted).path) THEN <<x>> \o sorted
    ELSE <<Head(sorted)>> \o insert_by_path(Tail(sorted), x)

\* the variant left in the order of the pools
sort_by_path_left_unsorted(variant) == variant

RECURSIVE sort_by_path(_)
\* "variant.sort(key=lambda x: x.path)"
sort_by_path(variant) ==
    IF variant = <<>> THEN <<>>
    ELSE insert_by_path(sort_by_path(SubSeq(variant, 1, Len(variant) - 1)),
                        variant[Len(variant)])

RECURSIVE repr_value(_)
\* the value mapping written key by key, the least key first
repr_value(value) ==
    IF DOMAIN value = {} THEN <<>>
    ELSE LET k == CHOOSE x \in DOMAIN value :
                      \A y \in (DOMAIN value) \ {x} : str_lt(x, y)
         IN k \o str(value[k]) \o repr_value(Pop(value, k))

\* TreeNode.fingerprint: the path of the node and its values
fingerprint(x) == x.path \o repr_value(x.node.value)

RECURSIVE digest(_, _)
\* the digest of a string, carried on from h: sixteen bits stand for the
\* first four hexadecimal digits of the SHA-1 digest
digest(h, s) ==
    IF s = <<>> THEN h
    ELSE digest((h * 31 + ord(Head(s))) % 65536, Tail(s))

Hexadecimal ==
    <<"0", "1", "2", "3", "4", "5", "6", "7", "8", "9", "a", "b", "c", "d", "e", "f">>

\* "sha.sha(fingerprint).hexdigest()[:4]"
hexdigest4(s) ==
    LET h == digest(7, s) IN
    <<Hexadecimal[(h \div 4096) + 1], Hexadecimal[((h \div 256) % 16) + 1],
      Hexadecimal[((h \div 16) % 16) + 1], Hexadecimal[(h % 16) + 1]>>

\* the identifier _get_variant_ids gives one variant
variant_id(variant) ==
    LET sorted == sort_by_path(variant)
        names == [i \in 1..Len(sorted) |-> sorted[i].node.name]
        prints == [i \in 1..Len(sorted) |-> fingerprint(sorted[i])]
    IN join(<<"-">>, names) \o <<"-">> \o hexdigest4(join(<<"-">>, prints))

\* MuxPlugin._get_variant_ids
_get_variant_ids(root) ==
    LET found == MuxTree_iter(MuxTree(At(RootPath, root))) IN
    [i \in 1..Len(found) |-> variant_id(found[i])]

(***************************************************************************)
(* MuxPlugin                                                               *)
(***************************************************************************)
\* None, and a value that is not None
None == <<>>
Some(x) == <<x>>

\* "mux_path = ['/run/*']"
mux_path == << <<"/", "r", "u", "n", "/", "*">> >>

\* MuxPlugin.__init__
MuxPlugin(root, path) ==
    [root |-> root, variants |-> None, default_params |-> None,
     mux_path |-> path, variant_ids |-> _get_variant_ids(root)]

\* MuxPlugin.__len__
len(self) == Len(self.variant_ids)

(***************************************************************************)
(* The trees the merge is tried on                                         *)
(***************************************************************************)
MaxVal == 2

Values == 1..MaxVal
NameA == <<"a">>
NameB == <<"b">>
NameC == <<"c">>
KeyP == <<"p">>
KeyQ == <<"q">>

Tree(name, value, multiplex, ctrl, children) ==
    [name |-> name, value |-> value, children |-> children,
     multiplex |-> multiplex, ctrl |-> ctrl]

Flags == {"None", "True", "False"}

\* value mappings over the keys p and q
ValueMaps ==
    {EmptyValue} \cup {(KeyP :> v) : v \in Values} \cup {(KeyQ :> 1)}
    \cup {(KeyP :> v) @@ (KeyQ :> 1) : v \in Values}

Queues ==
    {<<>>, <<Control(REMOVE_NODE, NameA)>>, <<Control(REMOVE_VALUE, KeyP)>>}

\* the children a node of the trees may have, by name
Kids(name) ==
    {Tree(name, EmptyValue, "None", <<>>, <<>>)}
    \cup {Tree(name, (KeyP :> v), "None", <<>>, <<>>) : v \in Values}
    \cup {Tree(name, EmptyValue, "True", <<>>,
                <<Tree(NameC, (KeyP :> 1), "None", <<>>, <<>>)>>),
          Tree(name, EmptyValue, "None",
               <<Control(REMOVE_VALUE, KeyP)>>, <<>>),
          Tree(name, EmptyValue, "None",
               <<Control(REMOVE_NODE, NameC)>>, <<>>)}

\* sequences of children with different names
Families ==
    {<<>>} \cup {<<x>> : x \in Kids(NameA) \cup Kids(NameB)}
    \cup {<<x, y>> : x \in Kids(NameA), y \in Kids(NameB)}
    \cup {<<y, x>> : x \in Kids(NameA), y \in Kids(NameB)}

PlainFamilies ==
    {<<>>, <<Tree(NameA, EmptyValue, "None", <<>>, <<>>)>>,
     <<Tree(NameB, (KeyP :> 1), "None", <<>>, <<>>),
       Tree(NameA, EmptyValue, "None", <<>>, <<>>)>>}

\* the trees merged pairwise
MergeTrees ==
    {Tree(<<>>, v, m, q, f) :
        v \in ValueMaps, m \in Flags, q \in Queues, f \in PlainFamilies}
    \cup {Tree(<<>>, EmptyValue, "None", q, f) : q \in Queues, f \in Families}

\* the children without pending control
QuietKids(name) == {x \in Kids(name) : x.ctrl = <<>>}

QuietFamilies ==
    {<<x>> : x \in QuietKids(NameA) \cup QuietKids(NameB)}
    \cup {<<x, y>> : x \in QuietKids(NameA), y \in QuietKids(NameB)}
    \cup {<<y, x>> : x \in QuietKids(NameA), y \in QuietKids(NameB)}

\* the trees merged three at a time
AssocTrees ==
    {Tree(<<>>, v, m, q, f) :
        v \in {EmptyValue} \cup {(KeyP :> x) : x \in Values}, m \in Flags,
        q \in {<<>>, <<Control(REMOVE_NODE, NameA)>>}, f \in PlainFamilies}
    \cup {Tree(<<>>, EmptyValue, "None", <<>>, f) : f \in QuietFamilies}

(***************************************************************************)
(* State                                                                   *)
(***************************************************************************)
VARIABLES
    pc,       \* where the run is
    args,     \* the inputs of the last operation
    res,      \* its results; in a run, the tree before the last operation
    data,     \* create_from_yaml: the accumulator
    nloaded,  \* create_from_yaml: the documents read so far
    err,      \* the exception raised, "" if none
    plugin,   \* the MuxPlugin, once there is one
    gen       \* the generator of the iteration pass under way

vars == <<pc, args, res, data, nloaded, err, plugin, gen>>

NoArgs == <<>>
NoRes == <<>>
NoPlugin == <<>>
NoGen == <<>>

(***************************************************************************)
(* The documents and the filter rules of a run                             *)
(***************************************************************************)
MaxDocs == 2
MaxEntries == 2

RunName == <<"r", "u", "n">>

\* the entries of the mapping of a node of a document
InnerEntries ==
    {ValueEntry(KeyP, 1), RemoveValueEntry(KeyP), RemoveNodeEntry(NameC),
     EmptyEntry(NameC)}

InnerMappings == {<<>>} \cup {<<e>> : e \in InnerEntries}

\* the entries of the top mapping of a document; no file is called z
TopEntries ==
    {ValueEntry(KeyP, 2), RemoveNodeEntry(NameA), UsingEntry(<<"x">>),
     IncludeEntry(<<"s">>), IncludeEntry(<<"z">>), EmptyEntry(NameB)}
    \cup {NodeEntry(NameA, FALSE, m) : m \in InnerMappings}
    \cup {NodeEntry(NameB, TRUE, <<EmptyEntry(NameC)>>)}

RECURSIVE Mappings(_)
\* the mappings of at most n top entries
Mappings(n) ==
    IF n = 0 THEN {<<>>}
    ELSE Mappings(n - 1)
         \cup {Append(m, e) : m \in {x \in Mappings(n - 1) : Len(x) = n - 1},
                              e \in TopEntries}

Documents ==
    {Document(m) : m \in Mappings(MaxEntries)}
    \cup {EmptyDocument, MalformedDocument}

PathA == <<SEP>> \o RunName \o <<SEP>> \o NameA
PathB == <<SEP>> \o RunName \o <<SEP>> \o NameB
PathAC == PathA \o <<SEP>> \o NameC

\* the rule lists --mux-filter-only and --mux-filter-out may hold
RuleLists == {<<>>, <<PathA>>, <<PathAC \o <<SEP>>>>, <<PathB, <<>>>>}

(***************************************************************************)
(* create_from_yaml, one document at a time, and apply_filters             *)
(***************************************************************************)
\* _merge taking the children of the document as they are
_merge_without_match(acc, tmp) ==
    IF tmp.none THEN acc
    ELSE [acc EXCEPT !.children = @ \o tmp.node.children]

\* _merge
_merge(acc, tmp) == IF tmp.none THEN acc ELSE merge(acc, tmp.node)

\* the exception create_from_yaml lets through
raised(e) == IF e \in {"YAMLError", "IndexError"} THEN "IOError" ELSE e

Init ==
    /\ pc = "load"
    /\ args = NoArgs
    /\ res = NoRes
    /\ data = MuxTreeNode
    /\ nloaded = 0
    /\ err = ""
    /\ plugin = NoPlugin
    /\ gen = NoGen

\* one turn of the loop that empties the accumulator when the load fails
LoadDocument_rolling_back(doc) ==
    /\ pc = "load"
    /\ nloaded < MaxDocs
    /\ LET tmp == create_tree(<<RunName>>, doc) IN
       IF tmp.err # ""
       THEN /\ pc' = "raised"
            /\ err' = raised(tmp.err)
            /\ data' = MuxTreeNode
            /\ UNCHANGED nloaded
       ELSE /\ data' = _merge(data, tmp)
            /\ nloaded' = nloaded + 1
            /\ UNCHANGED <<pc, err>>
    /\ args' = doc
    /\ res' = data
    /\ UNCHANGED <<plugin, gen>>

\* one turn of "for path in paths"
LoadDocument(doc) ==
    /\ pc = "load"
    /\ nloaded < MaxDocs
    /\ LET tmp == create_tree(<<RunName>>, doc) IN
       IF tmp.err # ""
       THEN /\ pc' = "raised"
            /\ err' = raised(tmp.err)
            /\ UNCHANGED <<data, nloaded>>
       ELSE /\ data' = _merge(data, tmp)
            /\ nloaded' = nloaded + 1
            /\ UNCHANGED <<pc, err>>
    /\ args' = doc
    /\ res' = data
    /\ UNCHANGED <<plugin, gen>>

\* "return data"
Return ==
    /\ pc = "load"
    /\ pc' = "returned"
    /\ UNCHANGED <<args, res, data, nloaded, err, plugin, gen>>

\* YamlToMux.run: the loaded tree merged into a new node, then
\* "data = apply_filters(data, ...)"
ApplyFilters(filter_only, filter_out) ==
    /\ pc = "returned"
    /\ pc' = "filtered"
    /\ res' = data
    /\ data' = apply_filters(merge(MuxTreeNode, data), filter_only, filter_out)
    /\ args' = [filter_only |-> filter_only, filter_out |-> filter_out]
    /\ UNCHANGED <<nloaded, err, plugin, gen>>

\* YamlToMux.run with every tree given a plugin, the empty one too
AddVariantsPlugin_always ==
    /\ pc = "filtered"
    /\ pc' = "registered"
    /\ plugin' = MuxPlugin(data, mux_path)
    /\ UNCHANGED <<args, res, data, nloaded, err, gen>>

\* YamlToMux.run: "if data != MuxTreeNode(): args.mux.add_variants_plugin("
\* "MuxPlugin(data, mux_path))"
AddVariantsPlugin ==
    /\ pc = "filtered"
    /\ pc' = "registered"
    /\ plugin' = IF data # MuxTreeNode THEN MuxPlugin(data, mux_path)
                 ELSE NoPlugin
    /\ UNCHANGED <<args, res, data, nloaded, err, gen>>

Next ==
    \/ \E doc \in Documents : LoadDocument(doc)
    \/ Return
    \/ \E filter_only \in RuleLists, filter_out \in RuleLists :
          ApplyFilters(filter_only, filter_out)
    \/ AddVariantsPlugin

Spec == Init /\ [][Next]_vars

(***************************************************************************)
(* Claims about the trees of a run                                         *)
(***************************************************************************)
\* C5: in every tree a run reaches by loading and merging documents and
\* applying filters, no two children of one parent share a name.
C5_UniqueSiblingNames == UniqueSiblings(data)

\* two documents that name the same nodes, merged and filtered
C5_Witness ==
    /\ pc = "filtered"
    /\ nloaded = 2
    /\ Len(res.children) = 1
    /\ Len(res.children[1].children) = 2
    /\ Len(res.children[1].children[1].children) = 1
    /\ Len(data.children[1].children) = 1

RECURSIVE NodesBelow(_, _)
\* the nodes below node, whose path is path, each with its path
NodesBelow(node, path) ==
    UNION { {[path |-> ChildPath(path, node.children[i].name),
              node |-> node.children[i]]}
            \cup NodesBelow(node.children[i],
                            ChildPath(path, node.children[i].name))
            : i \in 1..Len(node.children) }

Nodes(root) == {[path |-> RootPath, node |-> root]} \cup NodesBelow(root, RootPath)

\* the node of the tree under root at path, which is the path of a node
NodeAt(root, path) == (CHOOSE x \in Nodes(root) : x.path = path).node

Queued(node) == {node.ctrl[i] : i \in 1..Len(node.ctrl)}

RECURSIVE Pending(_)
\* how many controls are pending in the tree
Pending(node) ==
    IF node.children = <<>> THEN Len(node.ctrl)
    ELSE Len(node.ctrl)
         + Pending([node EXCEPT !.ctrl = <<>>, !.children = Tail(@)])
         + Pending(Head(node.children))

RECURSIVE Declared(_)
\* how many remove-node and remove-value entries a mapping declares
Declared(items) ==
    IF items = <<>> THEN 0
    ELSE (IF Head(items).kind \in {"remove_node", "remove_value"} THEN 1 ELSE 0)
         + Declared(Head(items).items) + Declared(Tail(items))

RECURSIVE Includes(_)
\* whether a mapping, or the mapping of one of its nodes, has an !include
Includes(items) ==
    \E i \in 1..Len(items) :
        items[i].kind = "include" \/ Includes(items[i].items)

RECURSIVE RepeatsName(_)
\* whether a mapping, or the mapping of one of its nodes, names two nodes alike
RepeatsName(items) ==
    \/ \E i, j \in 1..Len(items) :
          /\ i < j
          /\ items[i].kind \in {"node", "empty"}
          /\ items[j].kind \in {"node", "empty"}
          /\ items[i].key = items[j].key
    \/ \E i \in 1..Len(items) : RepeatsName(items[i].items)

\* a document has just been merged into the accumulator
JustMerged == pc = "load" /\ nloaded > 0 /\ args.status = "mapping"

\* the tree of the document just merged
JustLoaded == create_tree(<<RunName>>, args).node

\* a control pending before the merge is still queued on its node, unless
\* the merge met its target there
ControlsKept ==
    JustMerged =>
      \A x \in Nodes(res) :
        x.path \in Paths(data) =>
          \A c \in Queued(x.node) :
            \/ c \in Queued(NodeAt(data, x.path))
            \/ /\ x.path \in Paths(JustLoaded)
               /\ \/ Resolvable(x.node, c)
                  \/ Resolvable(NodeAt(JustLoaded, x.path), c)

\* a control pending before the merge is applied by the merge of a document
\* that introduces its target
ControlsApplied ==
    JustMerged =>
      \A x \in Nodes(res) :
        x.path \in Paths(data) \cap Paths(JustLoaded) =>
          \A c \in Queued(x.node) :
            Resolvable(NodeAt(JustLoaded, x.path), c)
              => ~Resolvable(NodeAt(data, x.path), c)

\* C7 as claimed: pending controls are kept, applied once a later document
\* introduces their target, and the load of a document applies none of the
\* controls the document declares.
C7_Original ==
    /\ ControlsKept
    /\ ControlsApplied
    /\ JustMerged => Pending(JustLoaded) = Declared(args.items)

\* C7: pending controls are kept, and applied once a later document
\* introduces their target; the load of a document applies none of the
\* controls it declares unless it merges on the way: an !include, or a node
\* name repeated in one mapping.
C7_ControlsQueuedUntilResolved ==
    /\ ControlsKept
    /\ ControlsApplied
    /\ JustMerged /\ ~Includes(args.items) /\ ~RepeatsName(args.items)
         => Pending(JustLoaded) = Declared(args.items)

\* remove-node(a) waits on /run until the next document brings the node a
C7_Witness ==
    /\ JustMerged
    /\ nloaded = 2
    /\ Len(res.children) = 1
    /\ res.children[1].ctrl = <<Control(REMOVE_NODE, NameA)>>
    /\ ~HasChild(res.children[1], NameA)
    /\ args = Document(<<NodeEntry(NameA, FALSE, <<ValueEntry(KeyP, 1)>>)>>)
    /\ data.children[1].ctrl = <<>>
    /\ ~HasChild(data.children[1], NameA)

\* the variants one pass over MuxTree(data) yields
Yielded == MuxTree_iter(MuxTree(At(RootPath, data)))

LoadStep == pc = "load" /\ (nloaded' = nloaded + 1 \/ pc' = "raised")

\* C22: when the load of a document fails, the error reaches the caller,
\* the accumulator is left as the documents before had made it, and after
\* the error no document is loaded or merged and no tree is returned.
C22_FailedLoadAborts ==
    /\ [](err # "" => (pc = "raised" /\ data = res))
    /\ [][/\ (LoadStep /\ create_tree(<<RunName>>, args').err # "") =>
                 /\ pc' = "raised"
                 /\ err' # ""
                 /\ data' = data
                 /\ nloaded' = nloaded
          /\ err = ""]_vars

\* the second document has failed to load, for a missing include target,
\* a second !using or a malformed file, after a first that left nodes in
\* the accumulator
C22_Witness ==
    /\ pc = "raised"
    /\ nloaded >= 1
    /\ data # MuxTreeNode
    /\ \/ args = MalformedDocument
       \/ /\ args.status = "mapping"
          /\ Len(args.items) >= 1
          /\ \/ args.items[Len(args.items)] = IncludeEntry(<<"z">>)
             \/ /\ Len(args.items) >= 2
                /\ \A i \in 1..Len(args.items) : args.items[i].kind = "using"

(***************************************************************************)
(* Merge of two trees, in both orders                                      *)
(***************************************************************************)
InitMerge ==
    /\ pc = "merge"
    /\ args \in [target : MergeTrees, incoming : MergeTrees]
    /\ res = NoRes
    /\ data = MuxTreeNode
    /\ nloaded = 0
    /\ err = ""
    /\ plugin = NoPlugin
    /\ gen = NoGen

DoMerge ==
    /\ pc = "merge"
    /\ pc' = "merged"
    /\ res' = [merged |-> merge(args.target, args.incoming),
               reversed |-> merge(args.incoming, args.target)]
    /\ UNCHANGED <<args, data, nloaded, err, plugin, gen>>

NextMerge == DoMerge

SpecMerge == InitMerge /\ [][NextMerge]_vars

(***************************************************************************)
(* Claims about merge(target, incoming)                                    *)
(***************************************************************************)
Merged == pc = "merged"

RemoveValueKeys(node) ==
    {node.ctrl[i].value : i \in {j \in 1..Len(node.ctrl) :
                                    node.ctrl[j].code = REMOVE_VALUE}}

RemoveNodeNames(node) ==
    {node.ctrl[i].value : i \in {j \in 1..Len(node.ctrl) :
                                    node.ctrl[j].code = REMOVE_NODE}}

\* C2: after merge(target, incoming) every key of incoming.value is in
\* target.value with incoming's value and every key only target.value had
\* keeps its value, for the keys no pending remove-value control names.
C2_LastWriteWins ==
    Merged =>
      \A k \in ((DOMAIN args.target.value) \cup (DOMAIN args.incoming.value))
                \ (RemoveValueKeys(args.target)
                   \cup RemoveValueKeys(args.incoming)) :
          /\ k \in DOMAIN res.merged.value
          /\ res.merged.value[k] =
                IF k \in DOMAIN args.incoming.value
                THEN args.incoming.value[k] ELSE args.target.value[k]

\* an overwritten key and a kept key in one merge
C2_Witness ==
    /\ Merged
    /\ args.target.value = (KeyP :> 1) @@ (KeyQ :> 1)
    /\ args.incoming.value = (KeyP :> 2)
    /\ args.target.ctrl = <<>> /\ args.incoming.ctrl = <<>>
    /\ res.merged.value = (KeyP :> 2) @@ (KeyQ :> 1)

\* C3: the multiplex flag after merge(target, incoming) is incoming's when
\* that is True or False and target's own when incoming's is unset.
C3_TriStateFlag ==
    Merged =>
      res.merged.multiplex =
        IF args.incoming.multiplex \in {"True", "False"}
        THEN args.incoming.multiplex ELSE args.target.multiplex

\* an explicit False merged after a True
C3_Witness ==
    /\ Merged
    /\ args.target.multiplex = "True"
    /\ args.incoming.multiplex = "False"
    /\ res.merged.multiplex = "False"

Names(children) == {children[i].name : i \in 1..Len(children)}

RECURSIVE SelectSeq2(_, _)
\* the nodes of children whose name is not in names, in their order
SelectSeq2(children, names) ==
    IF children = <<>> THEN <<>>
    ELSE IF Head(children).name \in names
    THEN SelectSeq2(Tail(children), names)
    ELSE <<Head(children)>> \o SelectSeq2(Tail(children), names)

\* target's children, each merged with the child of incoming of its name if
\* there is one, followed by the children of incoming without a match
ExpectedChildren(target, incoming) ==
    [i \in 1..Len(target.children) |->
        IF HasChild(incoming, target.children[i].name)
        THEN merge(target.children[i],
                   ChildNamed(incoming, target.children[i].name))
        ELSE target.children[i]]
    \o SelectSeq2(incoming.children, Names(target.children))

C6_ControlResolved ==
    Merged =>
      \A i \in 1..Len(args.incoming.ctrl) :
        LET c == args.incoming.ctrl[i] IN
        Resolvable(args.target, c) =>
          IF c.code = REMOVE_NODE THEN ~HasChild(res.merged, c.value)
          ELSE c.value \notin DOMAIN res.merged.value

\* remove-value(p) merged onto a node whose value mapping is {p: 1}
C6_Witness ==
    /\ Merged
    /\ args.target.value = (KeyP :> 1)
    /\ args.incoming.ctrl = <<Control(REMOVE_VALUE, KeyP)>>
    /\ args.incoming.value = EmptyValue
    /\ res.merged.value = EmptyValue
    /\ res.merged.ctrl = <<>>

\* remove-node(a) merged onto a node with a child a that has a subtree
C6_WitnessNode ==
    /\ Merged
    /\ HasChild(args.target, NameA)
    /\ ChildNamed(args.target, NameA).children # <<>>
    /\ args.incoming.ctrl = <<Control(REMOVE_NODE, NameA)>>
    /\ ~HasChild(res.merged, NameA)

RECURSIVE Structure(_)
\* the names of a tree and the order of its children, nothing else
Structure(node) ==
    [name |-> node.name,
     children |-> [i \in 1..Len(node.children) |->
                      Structure(node.children[i])]]

RECURSIVE Unordered(_)
\* a tree up to the order of the children and of the pending controls of
\* each node
Unordered(node) ==
    [name |-> node.name, value |-> node.value, multiplex |-> node.multiplex,
     ctrl |-> {node.ctrl[i] : i \in 1..Len(node.ctrl)},
     children |-> {Unordered(node.children[i]) : i \in 1..Len(node.children)}]

RECURSIVE NoControls(_)
\* no node of the tree has a pending control
NoControls(node) ==
    /\ node.ctrl = <<>>
    /\ \A i \in 1..Len(node.children) : NoControls(node.children[i])

RECURSIVE NoConflict(_, _)
\* no key and no multiplex flag is set differently by a node of x and the
\* node of y at the same place
NoConflict(x, y) ==
    /\ \A k \in (DOMAIN x.value) \cap (DOMAIN y.value) : x.value[k] = y.value[k]
    /\ x.multiplex = "None" \/ y.multiplex = "None" \/ x.multiplex = y.multiplex
    /\ \A i \in 1..Len(x.children) :
          HasChild(y, x.children[i].name)
            => NoConflict(x.children[i], ChildNamed(y, x.children[i].name))

\* C8 as claimed: the two merge orders give the same paths and the same
\* child structure, and the same tree when no key or flag conflicts.
C8_Original ==
    Merged =>
      /\ Paths(res.merged) = Paths(res.reversed)
      /\ Structure(res.merged) = Structure(res.reversed)
      /\ NoConflict(args.target, args.incoming) => res.merged = res.reversed

\* C8: the two merge orders give trees with the same node paths, and, when no
\* key or flag conflicts, the same tree up to the order of the children (whose
\* order is that of first insertion) and of the queued controls.
C8_ReverseOrderUpToChildOrder ==
    Merged =>
      /\ Paths(res.merged) = Paths(res.reversed)
      /\ NoConflict(args.target, args.incoming)
           => Unordered(res.merged) = Unordered(res.reversed)

\* two trees without conflict whose merges differ in the order of children
C8_Witness ==
    /\ Merged
    /\ NoConflict(args.target, args.incoming)
    /\ Names(args.target.children) = {NameA}
    /\ Names(args.incoming.children) = {NameA, NameB}
    /\ args.incoming.children[1].name = NameB
    /\ Structure(res.merged) # Structure(res.reversed)
    /\ Unordered(res.merged) = Unordered(res.reversed)

(***************************************************************************)
(* Merge of three trees, chunked in two ways                               *)
(***************************************************************************)
InitAssoc ==
    /\ pc = "assoc"
    /\ args \in [a : AssocTrees, b : AssocTrees, c : AssocTrees]
    /\ res = NoRes
    /\ data = MuxTreeNode
    /\ nloaded = 0
    /\ err = ""
    /\ plugin = NoPlugin
    /\ gen = NoGen

\* B then C merged into A one after the other, and C merged into B before
\* the combined tree is merged into A
DoAssoc ==
    /\ pc = "assoc"
    /\ pc' = "chunked"
    /\ res' = [sequential |-> merge(merge(args.a, args.b), args.c),
               chunked |-> merge(args.a, merge(args.b, args.c))]
    /\ UNCHANGED <<args, data, nloaded, err, plugin, gen>>

NextAssoc == DoAssoc

SpecAssoc == InitAssoc /\ [][NextAssoc]_vars

Chunked == pc = "chunked"

\* C1 as claimed: for all trees the two chunkings give the same tree.
C1_Original == Chunked => res.sequential = res.chunked

\* C1: for trees without pending controls, merging B and then C into A gives
\* the same values, flags and ordered children as merging C into B and the
\* combined tree into A.
C1_MergeAssociative ==
    Chunked /\ NoControls(args.a) /\ NoControls(args.b) /\ NoControls(args.c)
      => res.sequential = res.chunked

\* three trees that set the same key and the flag, with children in
\* different orders
C1_Witness ==
    /\ Chunked
    /\ NoControls(args.a) /\ NoControls(args.b) /\ NoControls(args.c)
    /\ args.a.value = (KeyP :> 1) /\ args.b.value = (KeyP :> 2)
    /\ args.a.multiplex = "True" /\ args.c.multiplex = "False"
    /\ Len(args.a.children) = 1 /\ Len(args.b.children) = 2
    /\ res.sequential.value = (KeyP :> 2)
    /\ res.sequential.multiplex = "False"
    /\ Len(res.chunked.children) = 2
    /\ res.sequential = res.chunked

(***************************************************************************)
(* apply_filters on a tree and two rule lists                              *)
(***************************************************************************)
MaxDepth == 2
MaxRules == 2

Leaf(name) == Tree(name, EmptyValue, "None", <<>>, <<>>)

RECURSIVE Shapes(_, _)
\* the trees called name, at most depth levels deep, whose nodes have the
\* children a, b, both or none
Shapes(name, depth) ==
    IF depth = 0 THEN {Leaf(name)}
    ELSE {Leaf(name)}
         \cup {Tree(name, EmptyValue, "None", <<>>, <<x>>) :
                  x \in Shapes(NameA, depth - 1) \cup Shapes(NameB, depth - 1)}
         \cup {Tree(name, EmptyValue, "None", <<>>, <<x, y>>) :
                  x \in Shapes(NameA, depth - 1), y \in Shapes(NameB, depth - 1)}

FilterTrees == Shapes(<<>>, MaxDepth)

\* the paths a rule list may hold
RulePaths ==
    {<<>>, <<SEP>>, <<SEP, "a">>, <<SEP, "b", SEP>>, <<SEP, "a", SEP, "b">>,
     <<"a">>, <<SEP, "a", SEP, "a", SEP, SEP>>}

RECURSIVE Rules(_)
\* the lists of at most n rule paths
Rules(n) ==
    IF n = 0 THEN {<<>>}
    ELSE Rules(n - 1)
         \cup {Append(r, p) : r \in {x \in Rules(n - 1) : Len(x) = n - 1},
                              p \in RulePaths}

InitFilter ==
    /\ pc = "filter"
    /\ args \in [root : FilterTrees, filter_only : Rules(MaxRules),
                  filter_out : Rules(1)]
    /\ res = NoRes
    /\ data = MuxTreeNode
    /\ nloaded = 0
    /\ err = ""
    /\ plugin = NoPlugin
    /\ gen = NoGen

DoFilter ==
    /\ pc = "filter"
    /\ pc' = "filtered"
    /\ res' = [filtered |->
                  apply_filters(args.root, args.filter_only, args.filter_out),
               reordered |->
                  apply_filters(args.root, Reverse(args.filter_only),
                                args.filter_out),
               twice |->
                  apply_filters(apply_filters(args.root, args.filter_only,
                                              args.filter_out),
                                args.filter_only, args.filter_out)]
    /\ UNCHANGED <<args, data, nloaded, err, plugin, gen>>

NextFilter == DoFilter

SpecFilter == InitFilter /\ [][NextFilter]_vars

Filtered == pc = "filtered"

\* the targets of a rule list: its paths stripped, the empty ones ignored
Targets(rules) ==
    {rstrip(rules[i]) : i \in 1..Len(rules)} \ {<<>>}

IsPrefix(p, q) == Len(p) <= Len(q) /\ SubSeq(q, 1, Len(p)) = p

\* path is the path of the node at node_path or of a node of its subtree
Within(path, node_path) ==
    path = node_path \/ IsPrefix(node_path \o <<SEP>>, path)

\* C9: a node whose path is an exclude target is detached with its whole
\* subtree, also when the path is an only target too.
C9_ExcludeWins ==
    Filtered =>
      \A t \in Targets(args.filter_out) :
        \A path \in Paths(res.filtered) : ~Within(path, t)

\* /a with a child is an only target and an exclude target, and is gone
C9_Witness ==
    /\ Filtered
    /\ <<SEP, "a">> \in Targets(args.filter_only)
    /\ <<SEP, "a">> \in Targets(args.filter_out)
    /\ <<SEP, "a", SEP, "b">> \in Paths(args.root)
    /\ <<SEP, "b">> \in Paths(res.filtered)
    /\ <<SEP, "a">> \notin Paths(res.filtered)

\* whether the only rules let the node at path stay attached to its parent
Allowed(path, rules) ==
    \/ path \in Targets(rules)
    \/ path_parent(path) \notin {path_parent(t) : t \in Targets(rules)}

\* C10: without exclude rules, a node stays attached to its parent exactly
\* when its path is an only target or its parent's path is not the parent
\* path of any only target; every other node goes with its subtree, and the
\* order of the only rules makes no difference.
C10_OnlyIsAllowList ==
    Filtered /\ Targets(args.filter_out) = {} =>
      /\ Paths(res.filtered) =
           {path \in Paths(args.root) :
              \A x \in Paths(args.root) \ {RootPath} :
                Within(path, x) => Allowed(x, args.filter_only)}
      /\ res.reordered = res.filtered

\* the only rules /a and /a/b: /a and /a/b stay, their siblings /b and /a/a
\* go
C10_Witness ==
    /\ Filtered
    /\ args.filter_out = <<>>
    /\ args.filter_only = << <<SEP, "a">>, <<SEP, "a", SEP, "b">> >>
    /\ Paths(args.root) = {RootPath, <<SEP, "a">>, <<SEP, "b">>,
                           <<SEP, "a", SEP, "a">>, <<SEP, "a", SEP, "b">>}
    /\ Paths(res.filtered) = {RootPath, <<SEP, "a">>, <<SEP, "a", SEP, "b">>}

\* the paths of the parents of the nodes of a tree
ParentPaths(root) == {path_parent(p) : p \in Paths(root) \ {RootPath}}

\* C11 as claimed: rules that match no node leave the tree as it was.
C11_Original ==
    /\ Filtered
    /\ \A t \in Targets(args.filter_only) \cup Targets(args.filter_out) :
          t \notin Paths(args.root)
    => res.filtered = args.root

\* C11: rules that match no node leave the tree as it was, provided the
\* parent path of no only rule is the path of the parent of a node.
C11_UnmatchedRulesInert ==
    /\ Filtered
    /\ \A t \in Targets(args.filter_only) \cup Targets(args.filter_out) :
          t \notin Paths(args.root)
    /\ \A t \in Targets(args.filter_only) :
          path_parent(t) \notin ParentPaths(args.root)
    => res.filtered = args.root

\* the only rule /a/b and the exclude rule /a on a tree that has no /a
C11_Witness ==
    /\ Filtered
    /\ args.filter_only = << <<SEP, "a", SEP, "b">> >>
    /\ args.filter_out = << <<SEP, "a">> >>
    /\ Paths(args.root) = {RootPath, <<SEP, "b">>, <<SEP, "b", SEP, "a">>}
    /\ res.filtered = args.root

\* C12: the same rules applied to the filtered tree detach nothing more.
C12_FilterIdempotent == Filtered => res.twice = res.filtered

\* the only rule /a takes /b away, and nothing the second time
C12_Witness ==
    /\ Filtered
    /\ args.filter_only = << <<SEP, "a">> >>
    /\ args.filter_out = <<>>
    /\ Paths(args.root) = {RootPath, <<SEP, "a">>, <<SEP, "b">>,
                           <<SEP, "a", SEP, "a">>}
    /\ Paths(res.filtered) = {RootPath, <<SEP, "a">>, <<SEP, "a", SEP, "a">>}
    /\ res.twice = res.filtered

(***************************************************************************)
(* MuxTree and MuxPlugin on a tree                                         *)
(***************************************************************************)
MaxKids == 2

\* the names the children of a node are taken from
KidNames == <<NameA, NameB, NameC>>

RECURSIVE LeafRows(_)
\* the rows of leaves called by some of the names from the i-th on
LeafRows(i) ==
    IF i > MaxKids THEN {<<>>}
    ELSE LeafRows(i + 1)
         \cup {<<Leaf(KidNames[i])>> \o r : r \in LeafRows(i + 1)}

\* a node called name, flagged or not, above a row of leaves
Boughs(name) ==
    {Tree(name, EmptyValue, f, <<>>, r) : f \in Flags, r \in LeafRows(1)}

RECURSIVE BoughRows(_)
BoughRows(i) ==
    IF i > MaxKids THEN {<<>>}
    ELSE BoughRows(i + 1)
         \cup {<<b>> \o r : b \in Boughs(KidNames[i]), r \in BoughRows(i + 1)}

\* the trees that are partitioned and enumerated
MuxTrees ==
    {Tree(<<>>, EmptyValue, f, <<>>, r) :
        f \in {"None", "True"}, r \in BoughRows(1)}

InitMux ==
    /\ pc = "mux"
    /\ args \in [root : MuxTrees]
    /\ res = NoRes
    /\ data = MuxTreeNode
    /\ nloaded = 0
    /\ err = ""
    /\ plugin = NoPlugin
    /\ gen = NoGen

\* MuxTree(root), one full pass over it, and MuxPlugin(root, mux_path)
DoEnumerate ==
    /\ pc = "mux"
    /\ pc' = "enumerated"
    /\ LET pools == MuxTree(At(RootPath, args.root)) IN
       res' = [pools |-> pools, variants |-> MuxTree_iter(pools)]
    /\ plugin' = MuxPlugin(args.root, mux_path)
    /\ UNCHANGED <<args, data, nloaded, err, gen>>

NextMux == DoEnumerate

SpecMux == InitMux /\ [][NextMux]_vars

Enumerated == pc = "enumerated"

\* the paths of the leaves of a variant
VariantPaths(variant) == {variant[i].path : i \in 1..Len(variant)}

\* the path p lies below the node at path q
Under(p, q) ==
    IF q = RootPath THEN p # RootPath ELSE IsPrefix(q \o <<SEP>>, p)

\* a domain: a node flagged multiplex that has children
IsDomain(x) == x.node.multiplex = "True" /\ x.node.children # <<>>

\* the node x lies inside some domain of the tree
InDomain(root, x) ==
    \E y \in Nodes(root) : IsDomain(y) /\ Under(x.path, y.path)

Leaves(root) == {x \in Nodes(root) : x.node.children = <<>>}

RECURSIVE DomainSizes(_)
\* the product of the sizes of the domains in a row of nodes
DomainSizes(row) ==
    IF row = <<>> THEN 1
    ELSE (IF IsDomain(At(RootPath, Head(row))) THEN Len(Head(row).children)
          ELSE 1) * DomainSizes(Tail(row))

\* C13: when the domains of a tree are not nested and their children are
\* leaves, one pass yields as many variants as the product of the numbers of
\* children of the domains, and len() of the plugin built on the tree is
\* that number.
C13_VariantCountIsProduct ==
    Enumerated =>
      /\ ~IsDomain(At(RootPath, args.root)) =>
           /\ Len(res.variants) = DomainSizes(args.root.children)
           /\ len(plugin) = DomainSizes(args.root.children)
      /\ /\ IsDomain(At(RootPath, args.root))
         /\ \A i \in 1..Len(args.root.children) :
               args.root.children[i].children = <<>>
         => /\ Len(res.variants) = Len(args.root.children)
            /\ len(plugin) = Len(args.root.children)

\* two domains of two leaves each give four variants
C13_Witness ==
    /\ Enumerated
    /\ ~IsDomain(At(RootPath, args.root))
    /\ Len(args.root.children) = 2
    /\ \A i \in 1..2 : /\ IsDomain(At(RootPath, args.root.children[i]))
                      /\ Len(args.root.children[i].children) = 2
    /\ Len(res.variants) = 4
    /\ len(plugin) = 4

\* C14: every variant holds every leaf that lies in no domain, and of every
\* outermost domain the leaves of exactly one child.
C14_OneChildPerDomain ==
    Enumerated =>
      \A n \in 1..Len(res.variants) :
        LET found == VariantPaths(res.variants[n]) IN
        /\ \A x \in Leaves(args.root) :
              ~InDomain(args.root, x) => x.path \in found
        /\ \A y \in Nodes(args.root) :
              IsDomain(y) /\ ~InDomain(args.root, y) =>
                Cardinality({c \in Nodes(args.root) :
                                /\ path_parent(c.path) = y.path
                                /\ c.path # RootPath
                                /\ \E p \in found :
                                      p = c.path \/ Under(p, c.path)}) = 1

\* the domain /a with the leaves a and b, next to the leaf /b: two variants,
\* /a/a with /b and /a/b with /b
C14_Witness ==
    /\ Enumerated
    /\ Paths(args.root) = {RootPath, <<SEP, "a">>, <<SEP, "b">>,
                           <<SEP, "a", SEP, "a">>, <<SEP, "a", SEP, "b">>}
    /\ args.root.children[1].multiplex = "True"
    /\ args.root.multiplex = "None"
    /\ Len(res.variants) = 2
    /\ VariantPaths(res.variants[1]) = {<<SEP, "a", SEP, "a">>, <<SEP, "b">>}
    /\ VariantPaths(res.variants[2]) = {<<SEP, "a", SEP, "b">>, <<SEP, "b">>}

\* C15: a tree none of whose nodes is flagged True has one pool for every
\* leaf and one variant, which holds every leaf once.
C15_NoDomainOneVariant ==
    Enumerated /\ (\A x \in Nodes(args.root) : x.node.multiplex # "True") =>
      /\ Len(res.pools) = Cardinality(Leaves(args.root))
      /\ \A i \in 1..Len(res.pools) : res.pools[i].leaf
      /\ Len(res.variants) = 1
      /\ Len(res.variants[1]) = Cardinality(Leaves(args.root))
      /\ VariantPaths(res.variants[1]) = {x.path : x \in Leaves(args.root)}

\* /a, flagged False, with two leaves, and the leaf /b: three pools and one
\* variant of three leaves
C15_Witness ==
    /\ Enumerated
    /\ Len(args.root.children) = 2
    /\ args.root.multiplex = "None"
    /\ args.root.children[1].multiplex = "False"
    /\ Len(args.root.children[1].children) = 2
    /\ args.root.children[2].children = <<>>
    /\ args.root.children[2].multiplex = "None"
    /\ Len(res.pools) = 3
    /\ Len(res.variants) = 1
    /\ Len(res.variants[1]) = 3

RECURSIVE CountOf(_)
RECURSIVE SumOfCounts(_)
\* the product, over the pools, of one for a leaf and of the sum of the
\* counts of the children for a domain
CountOf(pools) ==
    IF pools = <<>> THEN 1
    ELSE (IF Head(pools).leaf THEN 1 ELSE SumOfCounts(Head(pools).alts))
         * CountOf(Tail(pools))

SumOfCounts(alts) ==
    IF alts = <<>> THEN 0 ELSE CountOf(Head(alts)) + SumOfCounts(Tail(alts))

RECURSIVE Weight(_, _)
\* the number of combinations of the sequences after the i-th
Weight(seqs, i) ==
    IF i >= Len(seqs) THEN 1 ELSE Len(seqs[i + 1]) * Weight(seqs, i + 1)

RECURSIVE ExpectedVariants(_)
RECURSIVE AlternativesOf(_)
\* the variants of the pools, counted off with the last pool as the lowest
\* digit: the n-th variant takes of every pool the alternative that the
\* digit of the pool says, and lists them in the order of the pools
ExpectedVariants(pools) ==
    LET alternatives == [i \in 1..Len(pools) |-> AlternativesOf(pools[i])]
        digit(n, i) == (((n - 1) \div Weight(alternatives, i))
                           % Len(alternatives[i])) + 1
    IN  IF \E i \in 1..Len(pools) : alternatives[i] = <<>> THEN <<>>
        ELSE [n \in 1..Weight(alternatives, 0) |->
                 chain([i \in 1..Len(pools) |-> alternatives[i][digit(n, i)]])]

\* the alternatives of a pool: the leaf, or the variants of the first child
\* of the domain, then those of the second, and so on
AlternativesOf(pool) ==
    IF pool.leaf THEN << <<pool.node>> >>
    ELSE chain([j \in 1..Len(pool.alts) |-> ExpectedVariants(pool.alts[j])])

RECURSIVE Preorder(_)
\* the paths of the nodes under x, x first, in pre-order
Preorder(x) ==
    <<x.path>> \o chain([i \in 1..Len(x.node.children) |->
                            Preorder(children_of(x)[i])])

\* the place of a path in a sequence of paths
PlaceIn(paths, path) == CHOOSE i \in 1..Len(paths) : paths[i] = path

\* C24: with nested domains the alternatives of a domain are the variants
\* of its children, one child after the other; the number of variants is
\* the product over the pools of one for a leaf and of the sum of the
\* counts of the children for a domain; the variants come in the order of
\* the Cartesian product with the last pool turning fastest; and every
\* variant lists its leaves in the pre-order of the tree.
C24_NestedDomains ==
    Enumerated =>
        /\ Len(res.variants) = CountOf(res.pools)
        /\ res.variants = ExpectedVariants(res.pools)
        /\ LET order == Preorder(At(RootPath, args.root)) IN
           \A n \in 1..Len(res.variants) :
               \A i \in 1..Len(res.variants[n]), j \in 1..Len(res.variants[n]) :
                   i < j => PlaceIn(order, res.variants[n][i].path)
                                < PlaceIn(order, res.variants[n][j].path)

\* the root is a domain of two children, of which the first is a domain of
\* two leaves and the second a plain node above two leaves
C24_Witness ==
    /\ Enumerated
    /\ Len(res.pools) = 1
    /\ ~res.pools[1].leaf
    /\ Len(res.pools[1].alts) = 2
    /\ Len(res.pools[1].alts[1]) = 1
    /\ ~res.pools[1].alts[1][1].leaf
    /\ Len(res.pools[1].alts[1][1].alts) = 2
    /\ Len(res.pools[1].alts[2]) = 2
    /\ Len(res.variants) = 3

(***************************************************************************)
(* MuxPlugin: update_defaults and the iteration passes                     *)
(***************************************************************************)
MaxCalls == 2
MaxPasses == 2

\* the domain /a of the leaves a and b next to the leaf /b
RootOsTimeout ==
    Tree(<<>>, EmptyValue, "None", <<>>,
         <<Tree(NameA, EmptyValue, "True", <<>>,
                <<Tree(NameA, KeyP :> 1, "None", <<>>, <<>>),
                  Tree(NameB, KeyP :> 2, "None", <<>>, <<>>)>>),
           Tree(NameB, KeyQ :> 1, "None", <<>>, <<>>)>>)

\* the leaf /a alone
RootOneLeaf ==
    Tree(<<>>, EmptyValue, "None", <<>>,
         <<Tree(NameA, KeyP :> 1, "None", <<>>, <<>>)>>)

\* the domain /a of two leaves and the domain /b of three
RootTwoDomains ==
    Tree(<<>>, EmptyValue, "None", <<>>,
         <<Tree(NameA, EmptyValue, "True", <<>>, <<Leaf(NameA), Leaf(NameB)>>),
           Tree(NameB, EmptyValue, "True", <<>>,
                <<Leaf(NameA), Leaf(NameB), Leaf(NameC)>>)>>)

\* the roots a plugin is built on
PluginRoots == {RootOsTimeout, RootOneLeaf, RootTwoDomains}

\* the defaults trees update_defaults is called with
DefaultTrees ==
    {MuxTreeNode,
     Tree(<<>>, EmptyValue, "None", <<>>,
          <<Tree(NameA, (KeyP :> 2) @@ (KeyQ :> 1), "None", <<>>, <<>>)>>),
     Tree(<<>>, EmptyValue, "None", <<>>,
          <<Tree(NameC, KeyQ :> 2, "None", <<>>, <<>>)>>),
     Tree(<<>>, EmptyValue, "None", <<>>,
          <<Tree(NameB, KeyQ :> 2, "None", <<>>, <<>>),
            Tree(NameA, EmptyValue, "False", <<>>, <<>>)>>),
     Tree(<<>>, EmptyValue, "True", <<>>, <<>>)}

\* no pass yet, the plugin as it was before the last update_defaults, and
\* the tree that update_defaults merged the defaults into and let go
NoPasses(prior, dropped) ==
    [out |-> <<>>, before |-> <<>>, complete |-> FALSE, passes |-> 0,
     prior |-> prior, dropped |-> dropped]

InitPlugin ==
    /\ pc = "plugin"
    /\ args = <<>>
    /\ res = NoPasses(NoPlugin, None)
    /\ data = MuxTreeNode
    /\ nloaded = 0
    /\ err = ""
    /\ plugin \in {MuxPlugin(root, mux_path) : root \in PluginRoots}
    /\ gen = NoGen

\* update_defaults with the root as the target of the merge
update_defaults_into_root(defaults) ==
    /\ pc = "plugin"
    /\ Len(args) < MaxCalls
    /\ LET dropped == IF plugin.default_params # None
                      THEN Some(merge(plugin.default_params[1], defaults))
                      ELSE None
           combination == merge(plugin.root, defaults)
       IN  /\ plugin' = [plugin EXCEPT
                  !.default_params = Some(combination),
                  !.variants = Some(MuxTree(At(RootPath, combination)))]
           /\ res' = NoPasses(plugin, dropped)
    /\ args' = Append(args, defaults)
    /\ gen' = NoGen
    /\ UNCHANGED <<pc, data, nloaded, err>>

\* MuxPlugin.update_defaults: the tree that default_params was is merged
\* with the defaults and then let go by the assignment that follows, after
\* which defaults, default_params and combination are one tree
update_defaults(defaults) ==
    /\ pc = "plugin"
    /\ Len(args) < MaxCalls
    /\ LET dropped == IF plugin.default_params # None
                      THEN Some(merge(plugin.default_params[1], defaults))
                      ELSE None
           combination == merge(defaults, plugin.root)
       IN  /\ plugin' = [plugin EXCEPT
                  !.default_params = Some(combination),
                  !.variants = Some(MuxTree(At(RootPath, combination)))]
           /\ res' = NoPasses(plugin, dropped)
    /\ args' = Append(args, defaults)
    /\ gen' = NoGen
    /\ UNCHANGED <<pc, data, nloaded, err>>

\* iter(plugin) handing back the generator of the pass before
MuxPlugin_iter_resuming ==
    /\ pc = "plugin"
    /\ res.passes < MaxPasses
    /\ gen' = IF gen = NoGen THEN [pos |-> 0, done |-> FALSE] ELSE gen
    /\ res' = [res EXCEPT !.out = <<>>, !.before = res.out,
                          !.complete = (gen # NoGen /\ gen.done),
                          !.passes = @ + 1]
    /\ UNCHANGED <<pc, args, data, nloaded, err, plugin>>

\* iter(plugin): a new generator, whatever became of the one before
MuxPlugin_iter ==
    /\ pc = "plugin"
    /\ res.passes < MaxPasses
    /\ gen' = [pos |-> 0, done |-> FALSE]
    /\ res' = [res EXCEPT !.out = <<>>, !.before = res.out,
                          !.complete = (gen # NoGen /\ gen.done),
                          !.passes = @ + 1]
    /\ UNCHANGED <<pc, args, data, nloaded, err, plugin>>

\* next() of the generator of MuxPlugin.__iter__: izip stops with the
\* shorter of variant_ids and variants, and cannot start on None
MuxPlugin_next ==
    /\ pc = "plugin"
    /\ gen # NoGen
    /\ ~gen.done
    /\ IF plugin.variants = None
       THEN /\ pc' = "raised"
            /\ err' = "TypeError"
            /\ UNCHANGED <<gen, res>>
       ELSE LET variants == MuxTree_iter(plugin.variants[1]) IN
            /\ IF gen.pos < Len(plugin.variant_ids) /\ gen.pos < Len(variants)
               THEN /\ gen' = [gen EXCEPT !.pos = @ + 1]
                    /\ res' = [res EXCEPT !.out = Append(@,
                                 [variant_id |-> plugin.variant_ids[gen.pos + 1],
                                  variant |-> variants[gen.pos + 1],
                                  mux_path |-> plugin.mux_path])]
               ELSE /\ gen' = [gen EXCEPT !.done = TRUE]
                    /\ UNCHANGED res
            /\ UNCHANGED <<pc, err>>
    /\ UNCHANGED <<args, data, nloaded, plugin>>

NextPlugin ==
    \/ \E defaults \in DefaultTrees : update_defaults(defaults)
    \/ MuxPlugin_iter
    \/ MuxPlugin_next

SpecPlugin == InitPlugin /\ [][NextPlugin]_vars

\* the items of one whole pass over the plugin as it stands
WholePass ==
    LET variants == MuxTree_iter(plugin.variants[1])
        n == IF Len(variants) < len(plugin) THEN Len(variants) ELSE len(plugin)
    IN  [i \in 1..n |-> [variant_id |-> plugin.variant_ids[i],
                         variant |-> variants[i],
                         mux_path |-> plugin.mux_path]]

\* C17: two passes over the same unmodified plugin yield the same items in
\* the same order: a pass following a whole pass repeats it item by item,
\* and a pass following an abandoned one starts again from the first item,
\* so that the two agree as far as both have got and, once the later pass
\* has ended, it holds the abandoned one as its beginning and is the whole
\* pass.
C17_PassesIdentical ==
    (pc = "plugin" /\ res.passes >= 2) =>
        /\ \A i \in 1..Len(res.out) :
               i <= Len(res.before) => res.out[i] = res.before[i]
        /\ gen.done =>
               /\ Len(res.before) <= Len(res.out)
               /\ res.complete => res.out = res.before
               /\ res.out = WholePass

\* a second pass has ended after a first one that was abandoned after its
\* first item, with more than one item to a pass
C17_Witness ==
    /\ pc = "plugin"
    /\ res.passes >= 2
    /\ gen.done
    /\ ~res.complete
    /\ Len(res.before) = 1
    /\ Len(res.out) > 1

\* C18 as claimed: after update_defaults, len(plugin) is the number of
\* items one whole pass over the plugin yields, and the variant_id of each
\* item yielded is the identifier of the variant yielded with it.
C18_LenAndIdsMatchPass ==
    (pc = "plugin" /\ Len(args) >= 1 /\ gen # NoGen /\ gen.done) =>
        /\ len(plugin) = Len(res.out)
        /\ \A i \in 1..Len(res.out) :
               res.out[i].variant_id = variant_id(res.out[i].variant)

\* the keys the node at the path sets in the tree, none without the node
KeysAt(root, path) ==
    IF path \in Paths(root) THEN DOMAIN NodeAt(root, path).value ELSE {}

\* C19 as claimed: after update_defaults(d1) and then update_defaults(d2)
\* the stored defaults tree holds every node and every key of d1 and of d2,
\* with d2's value on a key of d2 (where the root sets no value of its
\* own), and a second call with the tree of the first changes nothing.
C19_DefaultsAccumulate ==
    (pc = "plugin" /\ Len(args) = 2) =>
        LET stored == plugin.default_params[1]
            given == Nodes(args[1]) \cup Nodes(args[2])
        IN  /\ \A x \in given :
                   /\ x.path \in Paths(stored)
                   /\ DOMAIN x.node.value \subseteq KeysAt(stored, x.path)
            /\ \A x \in Nodes(args[2]) :
                   \A k \in DOMAIN x.node.value \ KeysAt(plugin.root, x.path) :
                       /\ x.path \in Paths(stored)
                       /\ k \in KeysAt(stored, x.path)
                       /\ NodeAt(stored, x.path).value[k] = x.node.value[k]
            /\ args[1] = args[2] => plugin = res.prior

\* the names of the children of a node, in their order
ChildNames(node) == [i \in 1..Len(node.children) |-> node.children[i].name]

\* the tree enumerated is the one built on this combination
EnumeratesTree(combination) ==
    /\ plugin.default_params = Some(combination)
    /\ plugin.variants = Some(MuxTree(At(RootPath, combination)))

\* C20 as claimed: the combination tree enumerated after update_defaults is
\* the merge with the root as target and the defaults as incoming tree.
C20_Original ==
    (pc = "plugin" /\ Len(args) >= 1) =>
        EnumeratesTree(merge(plugin.root, args[Len(args)]))

\* C20, amended: the combination tree enumerated after update_defaults is
\* the merge with the defaults as target and the root as incoming tree: it
\* has the nodes of both; on a key set by both at a path it has the root's
\* value and on any other key the value of the tree that sets it; where both
\* set the multiplex flag of a node it has the root's flag; and the children
\* of its root are the defaults' children in their order followed by the
\* root's children that the defaults do not have.
C20_RootMergedIntoDefaults ==
    (pc = "plugin" /\ Len(args) >= 1) =>
        LET defaults == args[Len(args)]
            root == plugin.root
            combination == plugin.default_params[1]
            IsNew(name) == \A i \in 1..Len(defaults.children) :
                               defaults.children[i].name # name
        IN  /\ EnumeratesTree(merge(defaults, root))
            /\ Paths(combination) = Paths(defaults) \cup Paths(root)
            /\ \A x \in Nodes(combination) :
                   /\ DOMAIN x.node.value =
                          KeysAt(defaults, x.path) \cup KeysAt(root, x.path)
                   /\ \A k \in DOMAIN x.node.value :
                          x.node.value[k] =
                              IF k \in KeysAt(root, x.path)
                              THEN NodeAt(root, x.path).value[k]
                              ELSE NodeAt(defaults, x.path).value[k]
                   /\ (x.path \in Paths(root)
                          /\ NodeAt(root, x.path).multiplex # "None") =>
                          x.node.multiplex = NodeAt(root, x.path).multiplex
            /\ ChildNames(combination) =
                   ChildNames(defaults) \o SelectSeq(ChildNames(root), IsNew)

\* update_defaults has been called with defaults that set a key the root
\* sets to another value, set a flag the root sets otherwise, and have the
\* root's children in another order
C20_Witness ==
    /\ pc = "plugin"
    /\ Len(args) >= 1
    /\ LET defaults == args[Len(args)]
           root == plugin.root
       IN  /\ \E x \in Nodes(defaults) :
                  \E k \in DOMAIN x.node.value \cap KeysAt(root, x.path) :
                      x.node.value[k] # NodeAt(root, x.path).value[k]
           /\ \E x \in Nodes(defaults) :
                  /\ x.path \in Paths(root)
                  /\ x.node.multiplex # "None"
                  /\ NodeAt(root, x.path).multiplex # "None"
                  /\ NodeAt(root, x.path).multiplex # x.node.multiplex
           /\ ChildNames(plugin.default_params[1]) # ChildNames(root)

(***************************************************************************)
(* MuxPlugin on trees whose children come in any order                     *)
(***************************************************************************)
MaxLeaves == 2

\* the names the children of the root are taken from
BoughNames == {NameA, NameB}

\* the names the leaves are taken from
LeafNames == {NameA, NameB, NameC}

RECURSIVE LeafLists(_)
\* the lists of at most n leaves of different names, in any order
LeafLists(n) ==
    IF n = 0 THEN {<<>>}
    ELSE LeafLists(n - 1)
         \cup {Append(r[1], Leaf(r[2])) :
                   r \in {x \in LeafLists(n - 1) \X LeafNames :
                       /\ Len(x[1]) = n - 1
                       /\ \A i \in 1..Len(x[1]) : x[1][i].name # x[2]}}

\* a child of the root: a node, flagged or not, above a list of leaves
IdBoughs(name) ==
    {Tree(name, EmptyValue, f, <<>>, r) : f \in Flags, r \in LeafLists(MaxLeaves)}

\* the roots the identifiers are computed for
IdTrees ==
    {Tree(<<>>, EmptyValue, "None", <<>>, r) :
        r \in {<<>>}
              \cup {<<x>> : x \in UNION {IdBoughs(n) : n \in BoughNames}}
              \cup {<<x, y>> : x \in IdBoughs(NameA), y \in IdBoughs(NameB)}
              \cup {<<y, x>> : x \in IdBoughs(NameA), y \in IdBoughs(NameB)}}

InitIds ==
    /\ pc = "ids"
    /\ args \in [root : IdTrees]
    /\ res = NoRes
    /\ data = MuxTreeNode
    /\ nloaded = 0
    /\ err = ""
    /\ plugin = NoPlugin
    /\ gen = NoGen

\* MuxPlugin(root, mux_path), next to the variants of the root in the
\* order MuxTree yields them
DoIdentify ==
    /\ pc = "ids"
    /\ pc' = "identified"
    /\ plugin' = MuxPlugin(args.root, mux_path)
    /\ res' = [variants |-> MuxTree_iter(MuxTree(At(RootPath, args.root)))]
    /\ UNCHANGED <<args, data, nloaded, err, gen>>

NextIds == DoIdentify

SpecIds == InitIds /\ [][NextIds]_vars

Identified == pc = "identified"

\* p comes before q in the lexicographic order of the characters
LexLess(p, q) ==
    \E k \in 1..Len(q) :
        /\ k <= Len(p) + 1
        /\ \A i \in 1..(k - 1) : p[i] = q[i]
        /\ k = Len(p) + 1 \/ ord(p[k]) < ord(q[k])

\* the names of the leaves of a variant, the leaf of the least path first
NamesInPathOrder(variant) ==
    LET rank(x) == 1 + Cardinality({i \in 1..Len(variant) :
                                       LexLess(variant[i].path, x.path)})
    IN  [k \in 1..Len(variant) |->
            (CHOOSE i \in 1..Len(variant) : rank(variant[i]) = k)]

\* the variant with its i-th and j-th leaves changing places
Swapped(variant, i, j) ==
    [k \in 1..Len(variant) |->
        IF k = i THEN variant[j] ELSE IF k = j THEN variant[i] ELSE variant[k]]

\* the leaves of the variant are not in the order of their paths
OutOfPathOrder(variant) ==
    \E i \in 1..Len(variant), j \in 1..Len(variant) :
        i < j /\ LexLess(variant[j].path, variant[i].path)

\* C21: every variant_id is the names of the leaves of its variant, the
\* leaf of the lexicographically least path first whatever the order of
\* the leaves in the variant, joined by dashes, then a dash and four
\* characters; and the same leaves in another order get the same
\* variant_id.
C21_IdNamesInPathOrder ==
    Identified =>
        /\ Len(plugin.variant_ids) = Len(res.variants)
        /\ \A n \in 1..Len(res.variants) :
               LET variant == res.variants[n]
                   id == plugin.variant_ids[n]
                   order == NamesInPathOrder(variant)
                   names == [k \in 1..Len(variant) |-> variant[order[k]].node.name]
               IN  /\ Len(id) >= 5
                   /\ SubSeq(id, 1, Len(id) - 5) = join(<<"-">>, names)
                   /\ id[Len(id) - 4] = "-"
                   /\ \A k \in (Len(id) - 3)..Len(id) :
                          \E h \in 1..Len(Hexadecimal) : id[k] = Hexadecimal[h]
                   /\ \A i \in 1..Len(variant), j \in 1..Len(variant) :
                          variant_id(Swapped(variant, i, j)) = id

\* identifiers have been computed for a variant of several leaves that the
\* pools give in another order than that of their paths
C21_Witness ==
    /\ Identified
    /\ \E n \in 1..Len(res.variants) :
           /\ Len(res.variants[n]) > 2
           /\ OutOfPathOrder(res.variants[n])

(***************************************************************************)
(* tree_node_from_values on the values of one node                         *)
(***************************************************************************)
MaxValues == 2

\* the values an !using is given
UsingValues ==
    {<<"x">>, <<"x", "/", "y">>, <<"/", "x">>, <<"x", "/">>,
     <<"/", "x", "/", "y", "/">>, <<"/">>, <<"/", "/">>, <<>>}

\* the values of the node: !using directives, a value and an empty node
UsingEntries ==
    {UsingEntry(v) : v \in UsingValues}
    \cup {ValueEntry(KeyP, 1), EmptyEntry(NameC)}

RECURSIVE ValueLists(_)
\* the lists of at most n values
ValueLists(n) ==
    IF n = 0 THEN {<<>>}
    ELSE ValueLists(n - 1)
         \cup {Append(r, e) : r \in {x \in ValueLists(n - 1) : Len(x) = n - 1},
                              e \in UsingEntries}

InitUsing ==
    /\ pc = "values"
    /\ args \in [name : {<<>>, NameA}, values : ValueLists(MaxValues)]
    /\ res = NoRes
    /\ data = MuxTreeNode
    /\ nloaded = 0
    /\ err = ""
    /\ plugin = NoPlugin
    /\ gen = NoGen

\* tree_node_from_values(name, values)
DoBuild ==
    /\ pc = "values"
    /\ pc' = "built"
    /\ res' = tree_node_from_values(args.name, args.values, FALSE)
    /\ UNCHANGED <<args, data, nloaded, err, plugin, gen>>

NextUsing == DoBuild

SpecUsing == InitUsing /\ [][NextUsing]_vars

Built == pc = "built"

\* the places of the !using directives among the values
UsingAt(values) == {i \in 1..Len(values) : values[i].kind = "using"}

\* the segments of a prefix without the slash it may start or end with
Segments(prefix) ==
    LET lead == IF prefix # <<>> /\ prefix[1] = SEP THEN Tail(prefix) ELSE prefix
        core == IF lead # <<>> /\ lead[Len(lead)] = SEP
                THEN SubSeq(lead, 1, Len(lead) - 1) ELSE lead
    IN  split(core)

RECURSIVE ChainOver(_, _, _)
\* the node is the top of a chain of single-child nodes called by the
\* segments, and the node below the last of them is called name
ChainOver(node, segments, name) ==
    IF segments = <<>> THEN node.name = name
    ELSE /\ node.name = Head(segments)
         /\ Len(node.children) = 1
         /\ ChainOver(node.children[1], Tail(segments), name)

\* the !using directives of the values that name a prefix of segments
\* none of which is empty
Prefixed(values) ==
    {i \in UsingAt(values) :
        \A k \in 1..Len(Segments(values[i].arg)) :
            Segments(values[i].arg)[k] # <<>>}

\* C23 as claimed: the values of a node hold at most one !using: with two
\* of them, whatever the value of the first, the load fails; and with one
\* !using of a prefix, a named node is wrapped in a chain of single-child
\* ancestors called by the segments of the prefix, the last segment being
\* the parent of the node.
C23_UsingAtMostOnce ==
    Built =>
        /\ Cardinality(UsingAt(args.values)) >= 2 => res.err # ""
        /\ (Cardinality(UsingAt(args.values)) = 1 /\ args.name # <<>>) =>
               \A i \in Prefixed(args.values) :
                   /\ res.err = ""
                   /\ ChainOver(res.node, Segments(args.values[i].arg), args.name)

(***************************************************************************)
(* YamlToMux.run: the deprecated filter options                            *)
(***************************************************************************)
MaxPaths == 1

RECURSIVE PathLists(_)
\* the lists of at most n paths an option is given
PathLists(n) ==
    IF n = 0 THEN {<<>>}
    ELSE PathLists(n - 1)
         \cup {Append(r, path) :
                   r \in {x \in PathLists(n - 1) : Len(x) = n - 1},
                   path \in {PathA, PathB}}

\* "# Deprecated filters": the options as run leaves them
deprecated_filters(options) ==
    LET only == options.filter_only
        with_only ==
            IF only # <<>>
            THEN [options EXCEPT !.mux_filter_only =
                     IF @ # <<>> THEN @ \o only ELSE only]
            ELSE options
        out == with_only.filter_out
    IN  IF out # <<>>
        THEN IF with_only.mux_filter_out # <<>>
             THEN [with_only EXCEPT !.mux_filter_only =
                      with_only.mux_filter_out \o out]
             ELSE [with_only EXCEPT !.mux_filter_out = out]
        ELSE with_only

InitOptions ==
    /\ pc = "options"
    /\ args \in [filter_only : PathLists(MaxPaths),
                 filter_out : PathLists(MaxPaths),
                 mux_filter_only : PathLists(MaxPaths),
                 mux_filter_out : PathLists(MaxPaths)]
    /\ res = NoRes
    /\ data = MuxTreeNode
    /\ nloaded = 0
    /\ err = ""
    /\ plugin = NoPlugin
    /\ gen = NoGen

\* YamlToMux.run up to the lists it hands to apply_filters
PassFilters ==
    /\ pc = "options"
    /\ pc' = "passed"
    /\ LET options == deprecated_filters(args) IN
       res' = [filter_only |-> options.mux_filter_only,
               filter_out |-> options.mux_filter_out]
    /\ UNCHANGED <<args, data, nloaded, err, plugin, gen>>

NextOptions == PassFilters

SpecOptions == InitOptions /\ [][NextOptions]_vars

\* the paths of a list
PathsOf(list) == {list[i] : i \in 1..Len(list)}

\* C25 as claimed: every path of --filter-out is in the exclude list handed
\* to apply_filters and every path of --filter-only in the only list, also
\* when --mux-filter-out or --mux-filter-only is given as well, and a path
\* given through --filter-out alone is not in the only list.
C25_DeprecatedFiltersPassed ==
    pc = "passed" =>
        /\ PathsOf(args.filter_out) \subseteq PathsOf(res.filter_out)
        /\ PathsOf(args.filter_only) \subseteq PathsOf(res.filter_only)
        /\ \A path \in PathsOf(args.filter_out) :
               path \in PathsOf(res.filter_only) =>
                   path \in PathsOf(args.filter_only)
                              \cup PathsOf(args.mux_filter_only)

(***************************************************************************)
(* PortTracker: the ports retained by the trackers of a process            *)
(***************************************************************************)
MaxPorts == 3
MaxTrackers == 2

\* "self.start_port = 5000"
start_port == 5000

\* the ports the calls name; the search of find_free_port ends within them
Ports == start_port..(start_port + MaxPorts - 1)

\* the state the instances share before the first of them is made
NoState == <<>>

\* "port in self.retained_ports"
Retained(port) ==
    \E i \in 1..Len(data.retained_ports) : data.retained_ports[i] = port

\* list.remove(port): the list without the first place that holds the port
remove(list, port) ==
    RemoveAt(list, CHOOSE i \in 1..Len(list) :
                       /\ list[i] = port
                       /\ \A j \in 1..(i - 1) : list[j] # port)

\* what a call leaves behind: the list before it, the port it returned and
\* the exception it raised
Call(before, port, e) == [before |-> before, port |-> port, err |-> e]

InitPorts ==
    /\ pc = "ports"
    /\ args = NoArgs
    /\ res = NoRes
    /\ data = NoState
    /\ nloaded = 0
    /\ err = ""
    /\ plugin = NoPlugin
    /\ gen = NoGen

\* PortTracker(): the list is made by the first instance only
PortTracker_init ==
    /\ pc = "ports"
    /\ nloaded < MaxTrackers
    /\ nloaded' = nloaded + 1
    /\ data' = IF data = NoState THEN [retained_ports |-> <<>>] ELSE data
    /\ args' = [op |-> "PortTracker", tracker |-> nloaded + 1]
    /\ res' = NoRes
    /\ UNCHANGED <<pc, err, plugin, gen>>

\* register_port without the look into the list
register_port_unchecked(tracker, port, free) ==
    /\ pc = "ports"
    /\ tracker \in 1..nloaded
    /\ args' = [op |-> "register_port", tracker |-> tracker, port |-> port]
    /\ IF free
       THEN /\ data' = [data EXCEPT !.retained_ports = Append(@, port)]
            /\ res' = Call(data.retained_ports, Some(port), "")
       ELSE /\ res' = Call(data.retained_ports, None, "ValueError")
            /\ UNCHANGED data
    /\ UNCHANGED <<pc, nloaded, err, plugin, gen>>

\* PortTracker.register_port; free: what is_port_free says of the port
register_port(tracker, port, free) ==
    /\ pc = "ports"
    /\ tracker \in 1..nloaded
    /\ args' = [op |-> "register_port", tracker |-> tracker, port |-> port]
    /\ IF ~Retained(port) /\ free
       THEN /\ data' = [data EXCEPT !.retained_ports = Append(@, port)]
            /\ res' = Call(data.retained_ports, Some(port), "")
       ELSE /\ res' = Call(data.retained_ports, None, "ValueError")
            /\ UNCHANGED data
    /\ UNCHANGED <<pc, nloaded, err, plugin, gen>>

\* PortTracker.find_free_port; busy: the ports is_port_free says are not
\* free; a search that would leave the ports of the model is left out
find_free_port(tracker, start, busy) ==
    /\ pc = "ports"
    /\ tracker \in 1..nloaded
    /\ LET first == IF start = None THEN start_port ELSE start[1]
           passed(port) == Retained(port) \/ port \in busy
       IN  \E port \in Ports :
               /\ port >= first
               /\ ~passed(port)
               /\ \A p \in first..(port - 1) : passed(p)
               /\ data' = [data EXCEPT !.retained_ports = Append(@, port)]
               /\ res' = Call(data.retained_ports, Some(port), "")
    /\ args' = [op |-> "find_free_port", tracker |-> tracker, start |-> start]
    /\ UNCHANGED <<pc, nloaded, err, plugin, gen>>

\* PortTracker.release_port
release_port(tracker, port) ==
    /\ pc = "ports"
    /\ tracker \in 1..nloaded
    /\ args' = [op |-> "release_port", tracker |-> tracker, port |-> port]
    /\ data' = IF Retained(port)
               THEN [data EXCEPT !.retained_ports = remove(@, port)]
               ELSE data
    /\ res' = Call(data.retained_ports, None, "")
    /\ UNCHANGED <<pc, nloaded, err, plugin, gen>>

NextPorts ==
    \/ PortTracker_init
    \/ \E tracker \in 1..MaxTrackers, port \in Ports, free \in BOOLEAN :
          register_port(tracker, port, free)
    \/ \E tracker \in 1..MaxTrackers, start \in {None} \cup {Some(p) : p \in Ports},
          busy \in SUBSET Ports :
          find_free_port(tracker, start, busy)
    \/ \E tracker \in 1..MaxTrackers, port \in Ports : release_port(tracker, port)

SpecPorts == InitPorts /\ [][NextPorts]_vars

\* the ports of a list
PortsOf(list) == {list[i] : i \in 1..Len(list)}

\* C26: retained_ports never holds a port twice, whichever tracker is
\* called: register_port of a retained port raises ValueError and leaves
\* the list as it was, find_free_port returns and retains a port not below
\* where it started that was not retained before, and release_port of a
\* port that is not retained leaves the list as it was.
C26_NoPortRetainedTwice ==
    (pc = "ports" /\ data # NoState) =>
        /\ Cardinality(PortsOf(data.retained_ports)) = Len(data.retained_ports)
        /\ (res # NoRes /\ args.op = "register_port"
               /\ args.port \in PortsOf(res.before)) =>
               /\ res.err = "ValueError"
               /\ data.retained_ports = res.before
        /\ (res # NoRes /\ args.op = "find_free_port") =>
               /\ res.err = ""
               /\ res.port # None
               /\ res.port[1] >=
                      (IF args.start = None THEN start_port ELSE args.start[1])
               /\ res.port[1] \notin PortsOf(res.before)
               /\ data.retained_ports = Append(res.before, res.port[1])
        /\ (res # NoRes /\ args.op = "release_port"
               /\ args.port \notin PortsOf(res.before)) =>
               data.retained_ports = res.before

\* the second tracker has been asked to register a port that is retained,
\* next to another retained port, and has raised ValueError
C26_Witness ==
    /\ pc = "ports"
    /\ nloaded = 2
    /\ res # NoRes
    /\ args.op = "register_port"
    /\ args.tracker = 2
    /\ args.port \in PortsOf(res.before)
    /\ res.err = "ValueError"
    /\ Len(data.retained_ports) >= 2

====
